---- MODULE Spec2Model ----
(***************************************************************************)
(* Real-time event subscriptions of the Vencode client (src/src/Client.ts):*)
(* listen / listenAll / stopListening and the onopen / onerror / onmessage *)
(* handlers that internalListen installs on every EventSource.             *)
(***************************************************************************)
EXTENDS Integers, Sequences, FiniteSets, TLC

VARIABLES
    options,       \* Client.options (the listeners read maxListenRetry only)
    eventSources,  \* Client.eventSources: sequence of EventListener {id, source}
    listenRetries, \* Client.listenRetries
    sources,       \* every EventSource constructed so far, indexed by handle
    history,       \* per EventSource: what was delivered to it and done with it
    sinceOpen,     \* retryable error signals handled since the last open signal
    work           \* what the run has cost so far, see MaxWork

vars == <<options, eventSources, listenRetries, sources, history, sinceOpen, work>>

----------------------------------------------------------------------------
(* Bounds *)

\* The cost of one run: 2 for every EventSource constructed (the transport and
\* its registry entry), 1 for every retryable error signal and every message
\* delivered
MaxWork == 6
\* largest configured options.maxListenRetry
MaxCeiling == 2

----------------------------------------------------------------------------
(* Strings.  The strings the code inspects are computed on: toLowerCase by *)
(* its table on the ids in use, includes on a string as its word sequence. *)

JobIds == {"A", "B"}
Ids == {"ALL", "all"} \cup JobIds

ToLowerCase(s) ==
    CASE s = "ALL" -> "all"
      [] s = "All" -> "all"
      [] s = "A" -> "a"
      [] s = "B" -> "b"
      [] OTHER -> s

Includes(str, pat) ==
    \E i \in 1..(Len(str) - Len(pat) + 1) : SubSeq(str, i, i + Len(pat) - 1) = pat

\* JSON.stringify(er) of the error events a transport raises
ErrorSignals ==
    { <<"message", "connect", "ECONNREFUSED", "127.0.0.1:443">>,
      <<"status", "404", "message", "No", "Found">>,
      <<"status", "404", "message", "Not", "Found">>,
      <<"type", "error">> }

Retryable(str) ==
    Includes(str, <<"connect", "ECONNREFUSED">>) \/ Includes(str, <<"No", "Found">>)

\* ev.data of the messages a transport delivers
RawMessages == {"1", "2", "{"}

\* JSON.parse(ev.data): the decoded value, or a SyntaxError
JSONParse(data) ==
    CASE data = "1" -> [ok |-> TRUE, value |-> 1]
      [] data = "2" -> [ok |-> TRUE, value |-> 2]
      [] OTHER -> [ok |-> FALSE, value |-> 0]

----------------------------------------------------------------------------
(* Client options *)

DefaultMaxListenRetry == 15

\* options.maxListenRetry: <<>> when not configured, <<n>> when configured
MaxListenRetryValues == {<<>>} \cup { <<n>> : n \in 0..MaxCeiling }

\* this.options.maxListenRetry || 15
Ceiling ==
    IF options.maxListenRetry = <<>> THEN DefaultMaxListenRetry
    ELSE IF options.maxListenRetry[1] = 0 THEN DefaultMaxListenRetry
    ELSE options.maxListenRetry[1]

----------------------------------------------------------------------------
(* Registry and transports *)

Handles == 1..Len(sources)

\* Array.prototype.findIndex with (t) => t.getId() === id, 1-based; 0 when none
FindIndex(id) ==
    IF \E i \in 1..Len(eventSources) : eventSources[i].id = id
    THEN CHOOSE i \in 1..Len(eventSources) :
            /\ eventSources[i].id = id
            /\ \A j \in 1..(i - 1) : eventSources[j].id # id
    ELSE 0

\* Array.prototype.splice(start) with no deleteCount, start 1-based
Splice(arr, start) == SubSeq(arr, 1, start - 1)

\* compares the ids as written, without toLowerCase
isListeningToAll_exact ==
    \E i \in 1..Len(eventSources) : eventSources[i].id = "all"

isListeningToAll ==
    \E i \in 1..Len(eventSources) : ToLowerCase(eventSources[i].id) = "all"

\* new EventSource(url): the topic selector of the url, not yet closed
NewEventSource(id) ==
    [id |-> id,
     url |-> IF id = "ALL" THEN [all |-> TRUE, jid |-> ""]
                           ELSE [all |-> FALSE, jid |-> id],
     closed |-> FALSE]

NewHistory ==
    [closes |-> 0, retryCloses |-> 0, errors |-> 0,
     received |-> <<>>, calls |-> <<>>]

----------------------------------------------------------------------------
Init ==
    /\ options \in [maxListenRetry : MaxListenRetryValues]
    /\ eventSources = <<>>
    /\ listenRetries = 0
    /\ sources = <<>>
    /\ history = <<>>
    /\ sinceOpen = 0
    /\ work = 0

internalListen(id) ==
    IF ToLowerCase(id) = "all" /\ isListeningToAll
    THEN UNCHANGED <<eventSources, sources, history, work>>
    ELSE /\ work + 2 <= MaxWork
         /\ work' = work + 2
         /\ sources' = Append(sources, NewEventSource(id))
         /\ history' = Append(history, NewHistory)
         /\ eventSources' = Append(eventSources,
                [id |-> id, source |-> Len(sources) + 1])

listen(jobId) ==
    /\ internalListen(jobId)
    /\ UNCHANGED <<options, listenRetries, sinceOpen>>

listenAll ==
    /\ internalListen("ALL")
    /\ UNCHANGED <<options, listenRetries, sinceOpen>>

\* removes the listeners and forgets to close the found one's source
stopListening_noClose(id) ==
    /\ LET idx == FindIndex(id) IN
         IF idx # 0
         THEN eventSources' = Splice(eventSources, idx)
         ELSE UNCHANGED eventSources
    /\ UNCHANGED <<options, listenRetries, sources, history, sinceOpen, work>>

stopListening(id) ==
    /\ LET idx == FindIndex(id) IN
         IF idx # 0
         THEN LET s == eventSources[idx].source IN
              /\ eventSources' = Splice(eventSources, idx)
              /\ sources' = [sources EXCEPT ![s].closed = TRUE]
              /\ history' = [history EXCEPT ![s].closes = @ + 1]
         ELSE UNCHANGED <<eventSources, sources, history>>
    /\ UNCHANGED <<options, listenRetries, sinceOpen, work>>

\* logs the open and leaves the counter as it is
onopen_noReset(s) ==
    /\ ~sources[s].closed
    /\ sinceOpen' = 0
    /\ UNCHANGED <<options, eventSources, listenRetries, sources, history, work>>

onopen(s) ==
    /\ ~sources[s].closed
    /\ listenRetries' = 0
    /\ sinceOpen' = 0
    /\ UNCHANGED <<options, eventSources, sources, history, work>>

\* counts the retryable errors of each EventSource apart and closes it on its
\* own count
onerror_perSource(s, str) ==
    /\ ~sources[s].closed
    /\ Retryable(str) => work < MaxWork
    /\ LET counted == Retryable(str)
           n == IF counted THEN history[s].errors + 1 ELSE history[s].errors
           close == n >= Ceiling
       IN /\ listenRetries' = (IF counted THEN listenRetries + 1 ELSE listenRetries)
          /\ work' = IF counted THEN work + 1 ELSE work
          /\ sinceOpen' = IF counted THEN sinceOpen + 1 ELSE sinceOpen
          /\ sources' = IF close THEN [sources EXCEPT ![s].closed = TRUE]
                                 ELSE sources
          /\ history' = [history EXCEPT
                ![s].errors = IF counted THEN @ + 1 ELSE @,
                ![s].closes = IF close THEN @ + 1 ELSE @,
                ![s].retryCloses = IF close THEN @ + 1 ELSE @]
    /\ UNCHANGED <<options, eventSources>>

\* An EventSource delivers no event after close(); the ceiling test runs for
\* every error signal, counted or not.
onerror(s, str) ==
    /\ ~sources[s].closed
    /\ Retryable(str) => work < MaxWork
    /\ LET counted == Retryable(str)
           n == IF counted THEN listenRetries + 1 ELSE listenRetries
           close == n >= Ceiling
       IN /\ listenRetries' = n
          /\ work' = IF counted THEN work + 1 ELSE work
          /\ sinceOpen' = IF counted THEN sinceOpen + 1 ELSE sinceOpen
          /\ sources' = IF close THEN [sources EXCEPT ![s].closed = TRUE]
                                 ELSE sources
          /\ history' = [history EXCEPT
                ![s].errors = IF counted THEN @ + 1 ELSE @,
                ![s].closes = IF close THEN @ + 1 ELSE @,
                ![s].retryCloses = IF close THEN @ + 1 ELSE @]
    /\ UNCHANGED <<options, eventSources>>

\* invokes the callback outside the try block, whatever JSON.parse did
onmessage_alwaysCalls(s, data, throws) ==
    /\ ~sources[s].closed
    /\ work < MaxWork
    /\ work' = work + 1
    /\ history' = [history EXCEPT
            ![s].received = Append(@, data),
            ![s].calls = Append(@, JSONParse(data).value)]
    /\ UNCHANGED <<options, eventSources, listenRetries, sources, sinceOpen>>

\* closes the connection in the catch block when the payload does not parse
onmessage_closesOnError(s, data, throws) ==
    /\ ~sources[s].closed
    /\ work < MaxWork
    /\ work' = work + 1
    /\ LET parsed == JSONParse(data) IN
         /\ history' = [history EXCEPT
               ![s].received = Append(@, data),
               ![s].calls = IF parsed.ok THEN Append(@, parsed.value) ELSE @,
               ![s].closes = IF parsed.ok THEN @ ELSE @ + 1]
         /\ sources' = IF parsed.ok THEN sources
                        ELSE [sources EXCEPT ![s].closed = TRUE]
    /\ UNCHANGED <<options, eventSources, listenRetries, sinceOpen>>

\* JSON.parse and the callback run inside one try block: a SyntaxError skips
\* the callback, and an exception the callback throws (throws) is caught after
\* the invocation was made.
onmessage(s, data, throws) ==
    /\ ~sources[s].closed
    /\ work < MaxWork
    /\ work' = work + 1
    /\ LET parsed == JSONParse(data) IN
         history' = [history EXCEPT
            ![s].received = Append(@, data),
            ![s].calls = IF parsed.ok THEN Append(@, parsed.value) ELSE @]
    /\ UNCHANGED <<options, eventSources, listenRetries, sources, sinceOpen>>

Next ==
    \/ \E jobId \in Ids : listen(jobId)
    \/ listenAll
    \/ \E id \in Ids : stopListening(id)
    \/ \E s \in Handles : onopen(s)
    \/ \E s \in Handles : \E str \in ErrorSignals : onerror(s, str)
    \/ \E s \in Handles : \E data \in RawMessages : \E throws \in BOOLEAN :
          onmessage(s, data, throws)

Spec == Init /\ [][Next]_vars

TypeOK ==
    /\ listenRetries \in Nat
    /\ Len(history) = Len(sources)
    /\ \A i \in 1..Len(eventSources) : eventSources[i].source \in Handles

----------------------------------------------------------------------------
(* Properties *)

SentinelIds == {"ALL", "All", "all"}

\* the registry entries whose topic is the sentinel in any casing
SentinelEntries(reg) == { i \in 1..Len(reg) : reg[i].id \in SentinelIds }

\* the EventSources registered under the topic id
RegisteredUnder(reg, id) == { reg[i].source : i \in { j \in 1..Len(reg) : reg[j].id = id } }

IsRegistered(s) == \E i \in 1..Len(eventSources) : eventSources[i].source = s

\* C1: the registry never holds more than one sentinel Subscription, whatever
\* else it holds; after listenAll it holds exactly one, and a listenAll made
\* while one is registered changes neither the registry nor the transports.
C1_OneSentinel ==
    /\ [](Cardinality(SentinelEntries(eventSources)) <= 1)
    /\ [][listenAll =>
            /\ Cardinality(SentinelEntries(eventSources')) = 1
            /\ SentinelEntries(eventSources) # {} =>
                  (eventSources' = eventSources /\ sources' = sources)]_vars

\* a sentinel Subscription registered by listenAll next to the Subscriptions
\* of two jobs
C1_Witness ==
    /\ Cardinality(SentinelEntries(eventSources)) = 1
    /\ \E i \in 1..Len(eventSources) : eventSources[i].id = "ALL"
    /\ \E i, j \in 1..Len(eventSources) :
          eventSources[i].id = "A" /\ eventSources[j].id = "B"

\* C2: stopListening(a) leaves the Subscription of every other job b as it
\* was: registered, with its transport open.
C2_StopLeavesOtherJobs ==
    [][\A a \in JobIds : \A b \in JobIds \ {a} :
          (stopListening(a) /\ RegisteredUnder(eventSources, a) # {}) =>
             /\ RegisteredUnder(eventSources', b) = RegisteredUnder(eventSources, b)
             /\ \A s \in RegisteredUnder(eventSources, b) :
                   sources'[s].closed = sources[s].closed]_vars

\* C3: a Subscription that was delivered fewer retryable error signals than
\* the ceiling has not been closed by the retry policy.
C3_BelowCeilingStaysOpen ==
    \A s \in Handles :
        history[s].errors < Ceiling => history[s].retryCloses = 0

\* C4: the retry policy closes a Subscription on its ceiling-th retryable
\* error signal and not before, and close is invoked on a transport exactly
\* once over its life: once when it is closed, never while it is open.
C4_ClosedOnceAtCeiling ==
    \A s \in Handles :
        /\ history[s].closes = (IF sources[s].closed THEN 1 ELSE 0)
        /\ history[s].retryCloses > 0 => history[s].errors >= Ceiling

C6_OtherErrorsIgnored ==
    [][\A s \in Handles : \A str \in ErrorSignals :
          (onerror(s, str) /\ ~Retryable(str)) =>
             /\ listenRetries' = listenRetries
             /\ ~sources'[s].closed]_vars

\* the callback arguments the messages of a stream call for, in order
RECURSIVE Decoded(_)
Decoded(msgs) ==
    IF msgs = <<>> THEN <<>>
    ELSE (CASE Head(msgs) = "1" -> <<1>>
            [] Head(msgs) = "2" -> <<2>>
            [] OTHER -> <<>>) \o Decoded(Tail(msgs))

\* C7: the callback of a Subscription was invoked once for each well-formed
\* message delivered to it, in delivery order, with the decoded payload, and
\* not at all for a malformed one.
C7_CallbackPerWellFormedMessage ==
    \A s \in Handles : history[s].calls = Decoded(history[s].received)

\* a malformed message, then a well-formed one that reached the callback
C7_Witness ==
    \E s \in Handles :
        /\ history[s].received = <<"{", "2">>
        /\ history[s].calls = <<2>>

\* C8: stopListening of a topic with no Subscription changes nothing; of a
\* topic with one, it invokes close once, on the transport of the first
\* Subscription of that topic and on no other, and afterwards the registry
\* holds no Subscription of that topic.
C8_StopListening ==
    [][\A id \in Ids : stopListening(id) =>
          IF RegisteredUnder(eventSources, id) = {}
          THEN UNCHANGED <<options, eventSources, listenRetries, sources, history>>
          ELSE LET first == CHOOSE i \in 1..Len(eventSources) :
                      /\ eventSources[i].id = id
                      /\ \A j \in 1..(i - 1) : eventSources[j].id # id
                   s == eventSources[first].source
               IN /\ history'[s].closes = history[s].closes + 1
                  /\ sources'[s].closed
                  /\ \A o \in Handles \ {s} : history'[o].closes = history[o].closes
                  /\ RegisteredUnder(eventSources', id) = {}]_vars

\* a Subscription that stopListening closed: its transport took one close, not
\* from the retry policy, and its topic is no longer registered
C8_Witness ==
    \E s \in Handles :
        /\ sources[s].closed
        /\ history[s].closes = 1
        /\ history[s].retryCloses = 0
        /\ RegisteredUnder(eventSources, sources[s].id) = {}

\* C9: a Subscription the retry policy closed is no longer in the registry.
C9_RetryCloseUnregisters ==
    \A i \in 1..Len(eventSources) :
        history[eventSources[i].source].retryCloses = 0

\* C10: every transport that is not closed belongs to a registered
\* Subscription.
C10_NoTransportLeak ==
    \A s \in Handles : ~sources[s].closed => IsRegistered(s)

\* C11: stopListening matches the sentinel in any casing: whenever a sentinel
\* Subscription registered by listenAll exists, stopListening of any casing
\* of the sentinel leaves no sentinel Subscription registered and that
\* Subscription's transport closed.
C11_StopMatchesAnyCasing ==
    \A id \in Ids \cap SentinelIds :
        \A s \in RegisteredUnder(eventSources, "ALL") :
            ENABLED (/\ stopListening(id)
                     /\ SentinelEntries(eventSources') = {}
                     /\ sources'[s].closed)

\* the sequence seq without its element at index
RemoveAt(seq, index) == SubSeq(seq, 1, index - 1) \o SubSeq(seq, index + 1, Len(seq))

\* C12: stopListening of a topic registered twice removes and closes only the
\* first Subscription of that topic: every other Subscription, the second of
\* that topic included, stays registered in the same order with its
\* transport as it was.
C12_StopRemovesOnlyFirst ==
    [][\A id \in Ids :
          (stopListening(id) /\ Cardinality(RegisteredUnder(eventSources, id)) = 2) =>
             LET first == CHOOSE i \in 1..Len(eventSources) :
                     /\ eventSources[i].id = id
                     /\ \A j \in 1..(i - 1) : eventSources[j].id # id
             IN /\ eventSources' = RemoveAt(eventSources, first)
                /\ sources'[eventSources[first].source].closed
                /\ \A o \in Handles \ {eventSources[first].source} :
                      sources'[o] = sources[o]]_vars

\* C13: the failure counter is one value of the client: a retryable error on
\* any topic adds one to it, an open on any topic sets it to zero, and an
\* error signal closes the transport it is delivered to exactly when the
\* retryable errors the client handled on all topics since the last open
\* have reached the ceiling, whatever that transport's own share of them.
C13_SharedCounter ==
    [][/\ \A s \in Handles : \A str \in ErrorSignals :
             onerror(s, str) =>
                /\ listenRetries' = listenRetries + (IF Retryable(str) THEN 1 ELSE 0)
                /\ sources'[s].closed <=> sinceOpen' >= Ceiling
       /\ \A s \in Handles : onopen(s) => listenRetries' = 0 /\ sinceOpen' = 0]_vars

\* topic B was closed by the retry policy with fewer retryable errors of its
\* own than the ceiling; topic A received the rest
C13_Witness ==
    \E a, b \in Handles :
        /\ sources[a].id = "A" /\ sources[b].id = "B"
        /\ history[b].retryCloses = 1
        /\ 0 < history[b].errors /\ history[b].errors < Ceiling
        /\ 0 < history[a].errors
        /\ history[a].errors + history[b].errors = Ceiling

\* C14: the topic selector of a transport agrees with the registry's notion
\* of the sentinel: all=true for an id that is the sentinel in any casing,
\* jid=<id> for every other id.
C14_SelectorMatchesSentinel ==
    \A s \in Handles :
        IF sources[s].id \in SentinelIds
        THEN sources[s].url = [all |-> TRUE, jid |-> ""]
        ELSE sources[s].url = [all |-> FALSE, jid |-> sources[s].id]

\* C15: the message handler changes no subscription state: the registry, the
\* failure counter, and every transport's state and close count are after it
\* what they were before it, whether the payload parses or not and whether
\* the callback throws or not.
C15_MessageChangesNothing ==
    [][\A s \in Handles : \A data \in RawMessages : \A throws \in BOOLEAN :
          onmessage(s, data, throws) =>
             /\ eventSources' = eventSources
             /\ listenRetries' = listenRetries
             /\ sources' = sources
             /\ \A o \in Handles :
                   /\ history'[o].closes = history[o].closes
                   /\ history'[o].retryCloses = history[o].retryCloses
                   /\ history'[o].errors = history[o].errors]_vars

\* a registered Subscription with its transport open after a malformed and a
\* well-formed message, the counter standing at one from an earlier error
C15_Witness ==
    \E s \in Handles :
        /\ history[s].received = <<"{", "1">>
        /\ history[s].errors = 1
        /\ listenRetries = 1
        /\ ~sources[s].closed
        /\ IsRegistered(s)

\* the ceiling a caller configured, 15 when none was configured
ConfiguredCeiling ==
    IF options.maxListenRetry = <<>> THEN DefaultMaxListenRetry
    ELSE options.maxListenRetry[1]

\* C16: the error handler compares the counter against the configured
\* maxListenRetry, whatever integer was configured, and against 15 only when
\* none was: an error signal closes its transport exactly when the counter
\* has reached that value.
C16_CeilingIsConfiguredValue ==
    [][\A s \in Handles : \A str \in ErrorSignals :
          onerror(s, str) =>
             (sources'[s].closed <=> listenRetries' >= ConfiguredCeiling)]_vars

\* C17: the failure counter lies between zero and the retry ceiling.
C17_CounterWithinCeiling ==
    0 <= listenRetries /\ listenRetries <= Ceiling
====
